---------------------------- MODULE Spec2Model ----------------------------
(***************************************************************************)
(* Terrain mesh and hydrology engine of TerrainGenerator.py (class World   *)
(* with Vertex, Ridge and Patch).                                          *)
(*                                                                         *)
(* Numbers.  The program computes in floating point; the model computes in *)
(* fixed point.  Coordinates and lengths are integers in units of          *)
(* 1/CoordScale, heights and sea levels in units of 1/HeightScale, fluxes  *)
(* in units of 1/|V| (the rainfall share set by reset_rivers).  Python     *)
(* lists are sequences whose position i+1 holds the element of index i;    *)
(* dicts are functions on their key sets; None is the empty sequence.      *)
(***************************************************************************)
EXTENDS Integers, Sequences, FiniteSets, TLC

VARIABLES
    voronoi,         \* self.voronoi: [vertices, ridge_vertices, regions]
    x_lim, y_lim,    \* self.x_lim, self.y_lim: <<low, high>>
    vertices,        \* self.vertices: sequence of Vertex records
    ridges,          \* self.ridges: dict ridge name -> Ridge record
    patches,         \* self.patches: dict patch name -> Patch record
    sea_level,       \* self.sea_level
    _land_patches,   \* self._land_patches: list of patch names
    _patch_network,  \* self._patch_network: None or <<graph>>
    pc,              \* "new" (not constructed), "built", "failed" (the constructor
                     \* raised), "nan" (built, and every vertex height is NaN: the
                     \* model follows such a world no further)
    err,             \* exception raised by the last call, "none" if it returned
    last,            \* the last call: [op, a, b]
    ret,             \* value returned by the last call that returns one
    steps            \* number of calls made on the world so far

vars == <<voronoi, x_lim, y_lim, vertices, ridges, patches, sea_level,
          _land_patches, _patch_network, pc, err, last, ret, steps>>

---------------------------------------------------------------------------
(* Representation *)

CoordScale == 1000
HeightScale == 5000

None == << >>
Some(x) == <<x>>
EmptyDict == [k \in {} |-> 0]
Put(d, k, x) == [y \in (DOMAIN d) \cup {k} |-> IF y = k THEN x ELSE d[y]]

\* Python list indexing with a non-negative index
At(list, i) == list[i + 1]

Range(s) == {s[i] : i \in DOMAIN s}

RECURSIVE SumSeq(_)
SumSeq(s) == IF s = << >> THEN 0 ELSE Head(s) + SumSeq(Tail(s))

\* the elements of a finite set of integers in ascending order
RECURSIVE SortedSeq(_)
SortedSeq(S) ==
    IF S = {} THEN << >>
    ELSE LET m == CHOOSE x \in S : \A y \in S : x <= y
         IN <<m>> \o SortedSeq(S \ {m})

\* floor of the square root, by bisection on lo..hi
RECURSIVE Bisect(_, _, _)
Bisect(x, lo, hi) ==
    IF lo >= hi THEN lo
    ELSE LET mid == (lo + hi + 1) \div 2
         IN IF mid * mid <= x THEN Bisect(x, mid, hi) ELSE Bisect(x, lo, mid - 1)
Isqrt(x) == Bisect(x, 0, 46340)

Abs(x) == IF x < 0 THEN -x ELSE x
Min2(a, b) == IF b < a THEN b ELSE a

---------------------------------------------------------------------------
(* Helper methods and mesh primitives *)

\* find_centroid: coordinate-wise mean of a non-empty list of points
find_centroid(points) ==
    << SumSeq([i \in DOMAIN points |-> points[i][1]]) \div Len(points),
       SumSeq([i \in DOMAIN points |-> points[i][2]]) \div Len(points) >>

\* np.linalg.norm(a - b)
Norm(a, b) == Isqrt((a[1] - b[1]) * (a[1] - b[1]) + (a[2] - b[2]) * (a[2] - b[2]))

\* Vertex.__init__; one is the flux 1 in flux units (the number of vertices)
Vertex(name, coords, one) ==
    [name |-> name, coords |-> coords, neighbors |-> {}, patches |-> {},
     ridges |-> EmptyDict, height |-> 0, flux |-> one]

\* Vertex.add_neighbor on the vertex of index v of the list vs
add_neighbor(vs, v, neighbor, ridge) ==
    [vs EXCEPT ![v + 1].neighbors = @ \cup {neighbor},
               ![v + 1].ridges = Put(@, neighbor, ridge)]

\* Ridge.__init__: the new Ridge record
Ridge(name, end_1, end_2) ==
    [name |-> name, end_1 |-> end_1, end_2 |-> end_2, patches |-> {}, flux |-> 0]

\* Ridge.__init__ registering the ridge at end_1 only
RidgeLink_OneSided(vs, name, end_1, end_2) ==
    add_neighbor(vs, end_1, end_2, name)

\* Ridge.__init__: its effect on the vertex list (both endpoints register)
RidgeLink(vs, name, end_1, end_2) ==
    add_neighbor(add_neighbor(vs, end_1, end_2, name), end_2, end_1, name)

\* Patch.__init__: the new Patch record
Patch(vs, name, pvertices) ==
    [name |-> name, vertices |-> pvertices, neighbors |-> EmptyDict,
     centroid |-> find_centroid([i \in DOMAIN pvertices |-> At(vs, pvertices[i]).coords]),
     _h |-> None, _slope |-> None]

\* Patch.__init__: its effect on the vertex list (vertex.patches.add(self))
PatchLink(vs, name, pvertices) ==
    [i \in DOMAIN vs |->
        IF vs[i].name \in Range(pvertices)
        THEN [vs[i] EXCEPT !.patches = @ \cup {name}] ELSE vs[i]]

---------------------------------------------------------------------------
(* World construction: a world under construction is [vertices, ridges,   *)
(* patches, err]                                                           *)

\* World._make_vertices
_make_vertices(vor) ==
    [i \in DOMAIN vor.vertices |-> Vertex(i - 1, vor.vertices[i], Len(vor.vertices))]

\* World._make_ridges without the test for -1: the index -1 is resolved as
\* Python resolves it, to the last vertex
RECURSIVE _make_ridges_KeepUnbounded(_, _, _)
_make_ridges_KeepUnbounded(vor, w, i) ==
    IF i >= Len(vor.ridge_vertices) THEN w
    ELSE LET points == At(vor.ridge_vertices, i)
             k == IF points[1] < 0 THEN Len(w.vertices) + points[1] ELSE points[1]
             j == IF points[2] < 0 THEN Len(w.vertices) + points[2] ELSE points[2]
         IN _make_ridges_KeepUnbounded(vor,
                [w EXCEPT !.vertices = RidgeLink(@, i, k, j),
                          !.ridges = Put(@, i, Ridge(i, k, j))],
                i + 1)

\* World._make_ridges, from the ridge of index i on
RECURSIVE _make_ridges(_, _, _)
_make_ridges(vor, w, i) ==
    IF i >= Len(vor.ridge_vertices) THEN w
    ELSE LET points == At(vor.ridge_vertices, i)
         IN IF -1 \in Range(points) THEN _make_ridges(vor, w, i + 1)
            ELSE LET k == points[1]
                     j == points[2]
                 IN _make_ridges(vor,
                        [w EXCEPT !.vertices = RidgeLink(@, i, k, j),
                                  !.ridges = Put(@, i, Ridge(i, k, j))],
                        i + 1)

\* World._make_patches, from the region of index i on
RECURSIVE _make_patches(_, _, _)
_make_patches(vor, w, i) ==
    IF i >= Len(vor.regions) THEN w
    ELSE LET region == At(vor.regions, i)
         IN IF -1 \in Range(region) \/ Len(region) = 0
            THEN _make_patches(vor, w, i + 1)
            ELSE _make_patches(vor,
                     [w EXCEPT !.vertices = PatchLink(@, i, region),
                               !.patches = Put(@, i, Patch(w.vertices, i, region))],
                     i + 1)

\* World._make_neighbors recording the adjacency at p1 only
RECURSIVE _make_neighbors_OneSided(_, _)
_make_neighbors_OneSided(w, todo) ==
    IF todo = << >> THEN w
    ELSE LET r == Head(todo)
             neighbors == At(w.vertices, w.ridges[r].end_1).patches
                            \cap At(w.vertices, w.ridges[r].end_2).patches
         IN IF Cardinality(neighbors) < 2 THEN _make_neighbors_OneSided(w, Tail(todo))
            ELSE IF Cardinality(neighbors) > 2 THEN [w EXCEPT !.err = "ValueError"]
            ELSE LET p1 == CHOOSE p \in neighbors : TRUE
                     p2 == CHOOSE p \in neighbors : p # p1
                 IN _make_neighbors_OneSided(
                        [w EXCEPT !.patches[p1].neighbors = Put(@, r, p2),
                                  !.ridges[r].patches = @ \cup {p1, p2}],
                        Tail(todo))

\* World._make_neighbors over the ridges named in the list todo (insertion
\* order of self.ridges); unpacking more than two shared patches raises
RECURSIVE _make_neighbors(_, _)
_make_neighbors(w, todo) ==
    IF todo = << >> THEN w
    ELSE LET r == Head(todo)
             neighbors == At(w.vertices, w.ridges[r].end_1).patches
                            \cap At(w.vertices, w.ridges[r].end_2).patches
         IN IF Cardinality(neighbors) < 2 THEN _make_neighbors(w, Tail(todo))
            ELSE IF Cardinality(neighbors) > 2 THEN [w EXCEPT !.err = "ValueError"]
            ELSE LET p1 == CHOOSE p \in neighbors : TRUE
                     p2 == CHOOSE p \in neighbors : p # p1
                 IN _make_neighbors(
                        [w EXCEPT !.patches[p1].neighbors = Put(@, r, p2),
                                  !.patches[p2].neighbors = Put(@, r, p1),
                                  !.ridges[r].patches = @ \cup {p1, p2}],
                        Tail(todo))

\* World.__init__: the four construction passes in order
Construct(vor) ==
    LET w0 == [vertices |-> _make_vertices(vor), ridges |-> EmptyDict,
               patches |-> EmptyDict, err |-> "none"]
        w1 == _make_ridges(vor, w0, 0)
        w2 == _make_patches(vor, w1, 0)
    IN _make_neighbors(w2, SortedSeq(DOMAIN w2.ridges))


---------------------------------------------------------------------------
(* Fixed-point exponential: arguments and results in thousandths *)

\* e^(f/1000) for 0 <= f < 1000, by its power series
RECURSIVE ExpSeries(_, _, _)
ExpSeries(f, k, term) ==
    IF term = 0 THEN 0
    ELSE term + ExpSeries(f, k + 1, (term * f) \div (1000 * k))
ExpFrac(f) == ExpSeries(f, 1, 1000)

\* e^n in thousandths and e^(-n) in millionths, n = 0, 1, 2, ...
ExpPosTable == <<1000, 2718, 7389, 20086, 54598>>
ExpNegTable == <<1000000, 367879, 135335, 49787, 18316, 6738, 2479, 912, 335, 123>>

\* np.exp(x / 1000) * 1000
Exp(x) ==
    IF x >= 0
    THEN LET n == Min2(x \div 1000, Len(ExpPosTable) - 1)
         IN (ExpPosTable[n + 1] * ExpFrac(x - 1000 * n)) \div 1000
    ELSE LET n == (-x) \div 1000
         IN IF n >= Len(ExpNegTable) THEN 0
            ELSE (ExpNegTable[n + 1] * (1000000 \div ExpFrac((-x) - 1000 * n))) \div 1000000

---------------------------------------------------------------------------
(* Heightfield editor: each operator maps the vertex list to the new one *)

Names(vs) == {vs[i].name : i \in DOMAIN vs}
HeightOf(vs, v) == At(vs, v).height

\* World._check_coord
_check_coord(xl, yl, coord) ==
    (xl[1] < coord[1] /\ coord[1] < xl[2]) /\ (yl[1] < coord[2] /\ coord[2] < yl[2])

\* World.set_heights
set_heights(vs, h) == [i \in DOMAIN vs |-> [vs[i] EXCEPT !.height = h]]

MinHeight(vs) == CHOOSE h \in {vs[i].height : i \in DOMAIN vs} :
                    \A i \in DOMAIN vs : h <= vs[i].height
MaxHeight(vs) == CHOOSE h \in {vs[i].height : i \in DOMAIN vs} :
                    \A i \in DOMAIN vs : h >= vs[i].height

\* World.normalize_heights when max_h # min_h
normalize_heights(vs) ==
    LET min_h == MinHeight(vs)
        max_h == MaxHeight(vs)
    IN [i \in DOMAIN vs |->
          [vs[i] EXCEPT !.height = ((@ - min_h) * HeightScale) \div (max_h - min_h)]]

\* np.dot(v.coords, slope) in height units
Dot(coords, slope) ==
    ((coords[1] * slope[1] + coords[2] * slope[2]) * HeightScale) \div CoordScale

\* World.add_slope adding the dot product to the height ("+=" for "=")
add_slope_Accumulate(vs, xl, yl, magnitude, slope) ==
    LET s == IF magnitude # 0 THEN <<slope[1] * magnitude, slope[2] * magnitude>>
             ELSE slope
    IN [i \in DOMAIN vs |->
          IF _check_coord(xl, yl, vs[i].coords)
          THEN [vs[i] EXCEPT !.height = @ + Dot(vs[i].coords, s)] ELSE vs[i]]

\* World.add_slope before its optional normalisation; magnitude 0 stands for
\* a falsy magnitude
add_slope(vs, xl, yl, magnitude, slope) ==
    LET s == IF magnitude # 0 THEN <<slope[1] * magnitude, slope[2] * magnitude>>
             ELSE slope
    IN [i \in DOMAIN vs |->
          IF _check_coord(xl, yl, vs[i].coords)
          THEN [vs[i] EXCEPT !.height = Dot(vs[i].coords, s)] ELSE vs[i]]

\* np.exp(-v.dist(hill)**2/(2*r**2)) ** 2 in height units
HillHeight(coords, hill, r) ==
    LET d == Norm(coords, hill)
        half == Exp(-((d * d * 1000) \div (2 * r * r)))
    IN (((half * half) \div 1000) * HeightScale) \div 1000

\* World.add_hill before its optional normalisation
add_hill(vs, xl, yl, hill, r) ==
    [i \in DOMAIN vs |->
        IF _check_coord(xl, yl, vs[i].coords)
        THEN [vs[i] EXCEPT !.height = @ + HillHeight(vs[i].coords, hill, r)]
        ELSE vs[i]]

---------------------------------------------------------------------------
(* Hydrology simulator: a mesh under simulation is [vertices, ridges, err] *)

\* World.reset_rivers resetting the ridges only: the vertices keep the flux
\* they have
reset_rivers_RidgesOnly(vs, rs) ==
    [vertices |-> vs,
     ridges |-> [r \in DOMAIN rs |-> [rs[r] EXCEPT !.flux = 0]],
     err |-> "none"]

\* World.reset_rivers: every vertex flux 1/|V| (one flux unit), every ridge 0
reset_rivers(vs, rs) ==
    [vertices |-> [i \in DOMAIN vs |-> [vs[i] EXCEPT !.flux = 1]],
     ridges |-> [r \in DOMAIN rs |-> [rs[r] EXCEPT !.flux = 0]],
     err |-> "none"]

\* the vertices in ascending height order (the sort without reverse=True)
RECURSIVE vertices_by_height_Ascending(_, _)
vertices_by_height_Ascending(vs, S) ==
    IF S = {} THEN << >>
    ELSE LET v == CHOOSE x \in S : \A y \in S :
                     \/ At(vs, x).height < At(vs, y).height
                     \/ At(vs, x).height = At(vs, y).height /\ x <= y
         IN <<v>> \o vertices_by_height_Ascending(vs, S \ {v})

\* sorted(self.vertices, key=height, reverse=True): the sort is stable, so
\* vertices of equal height keep their list order
RECURSIVE vertices_by_height(_, _)
vertices_by_height(vs, S) ==
    IF S = {} THEN << >>
    ELSE LET v == CHOOSE x \in S : \A y \in S :
                     \/ HeightOf(vs, x) > HeightOf(vs, y)
                     \/ HeightOf(vs, x) = HeightOf(vs, y) /\ x <= y
         IN <<v>> \o vertices_by_height(vs, S \ {v})

\* the neighbours min(v.neighbors, key=height) can return: Python's min
\* returns the first minimal element in the iteration order of the set, an
\* order the program does not control
LowestNeighbors(vs, v) ==
    {n \in At(vs, v).neighbors :
        \A m \in At(vs, v).neighbors : HeightOf(vs, n) <= HeightOf(vs, m)}

\* what the model lets min return for v: any lowest neighbour when it is
\* strictly lower than v, one fixed lowest neighbour when it is not (v then
\* routes nothing, whichever neighbour min returns)
LowestOptions(vs, v) ==
    IF \E n \in At(vs, v).neighbors : HeightOf(vs, n) < HeightOf(vs, v)
    THEN LowestNeighbors(vs, v)
    ELSE {CHOOSE n \in LowestNeighbors(vs, v) : TRUE}

\* the functions giving each vertex of S one of its lowest neighbours
RECURSIVE LowestChoices(_, _)
LowestChoices(vs, S) ==
    IF S = {} THEN {EmptyDict}
    ELSE LET v == CHOOSE x \in S : TRUE
         IN {Put(f, v, n) : f \in LowestChoices(vs, S \ {v}), n \in LowestOptions(vs, v)}

\* the vertices for which make_rivers evaluates min(v.neighbors)
Sources(vs, xl, yl) ==
    {v \in Names(vs) : _check_coord(xl, yl, At(vs, v).coords) /\ At(vs, v).neighbors # {}}

\* the loop of World.make_rivers over the vertex names in order, lowest[v]
\* being what min returns for v; min of an empty set raises ValueError
RECURSIVE RiverPass(_, _, _, _, _)
RiverPass(w, xl, yl, order, lowest) ==
    IF order = << >> THEN w
    ELSE LET v == Head(order)
             vs == w.vertices
         IN IF ~_check_coord(xl, yl, At(vs, v).coords)
            THEN RiverPass(w, xl, yl, Tail(order), lowest)
            ELSE IF At(vs, v).neighbors = {} THEN [w EXCEPT !.err = "ValueError"]
            ELSE LET lo == lowest[v]
                 IN IF HeightOf(vs, lo) < HeightOf(vs, v)
                    THEN RiverPass(
                           [w EXCEPT !.vertices[lo + 1].flux = @ + At(vs, v).flux,
                                     !.ridges[At(vs, v).ridges[lo]].flux = @ + At(vs, v).flux],
                           xl, yl, Tail(order), lowest)
                    ELSE RiverPass(w, xl, yl, Tail(order), lowest)

\* World.make_rivers
make_rivers(vs, rs, xl, yl, lowest) ==
    RiverPass(reset_rivers(vs, rs), xl, yl, vertices_by_height(vs, Names(vs)), lowest)

\* Ridge.length
RidgeLength(vs, ridge) == Norm(At(vs, ridge.end_1).coords, At(vs, ridge.end_2).coords)

\* Ridge.slope in thousandths
RidgeSlope(vs, ridge) ==
    LET delta_h == Abs(HeightOf(vs, ridge.end_1) - HeightOf(vs, ridge.end_2))
    IN (((delta_h * 1000) \div RidgeLength(vs, ridge)) * CoordScale) \div HeightScale

\* total of World.erode_heights without the cap max_total
ErosionTotal_Uncapped(vs, ridge, max_total) ==
    LET delta_h == Abs(At(vs, ridge.end_1).height - At(vs, ridge.end_2).height)
        length == Norm(At(vs, ridge.end_1).coords, At(vs, ridge.end_2).coords)
        slope == (((delta_h * 1000) \div length) * CoordScale) \div HeightScale
        sqrt_flux == Isqrt((1000000 * ridge.flux) \div Len(vs))
    IN (sqrt_flux * slope) \div 1000 + (slope * slope) \div 1000000

\* total of World.erode_heights for one ridge: min(1000*river + creep, max_total)
ErosionTotal(vs, ridge, max_total) ==
    LET slope == RidgeSlope(vs, ridge)
        sqrt_flux == Isqrt((1000000 * ridge.flux) \div Len(vs))
        river1000 == (sqrt_flux * slope) \div 1000
        creep == (slope * slope) \div 1000000
    IN Min2(river1000 + creep, max_total)

\* the height 0.1 * total / 500 in height units
Drop(total) == (total * HeightScale) \div (10 * 500)

\* min([ridge.end_1, ridge.end_2], key=height): end_1 on a tie
LowEnd(vs, ridge) ==
    IF HeightOf(vs, ridge.end_2) < HeightOf(vs, ridge.end_1) THEN ridge.end_2
    ELSE ridge.end_1

\* World.erode_heights over the ridges named in the list todo
RECURSIVE erode_heights(_, _, _, _)
erode_heights(vs, rs, todo, max_total) ==
    IF todo = << >> THEN vs
    ELSE LET ridge == rs[Head(todo)]
         IN IF ridge.flux = 0 THEN erode_heights(vs, rs, Tail(todo), max_total)
            ELSE erode_heights(
                   [vs EXCEPT ![LowEnd(vs, ridge) + 1].height =
                                  @ - Drop(ErosionTotal(vs, ridge, max_total))],
                   rs, Tail(todo), max_total)

\* World.clean_coastline moving a vertex as soon as one neighbour is on the
\* other side of the sea level (> 0 for > 1)
RECURSIVE clean_coastline_AnyNeighbor(_, _, _, _)
clean_coastline_AnyNeighbor(vs, sea, epsilon, i) ==
    IF i >= Len(vs) THEN vs
    ELSE LET v == At(vs, i)
             above == Cardinality({n \in v.neighbors : HeightOf(vs, n) > sea})
             below == Cardinality({n \in v.neighbors : HeightOf(vs, n) < sea})
         IN IF v.height < sea /\ above > 0
            THEN clean_coastline_AnyNeighbor([vs EXCEPT ![i + 1].height = sea + epsilon],
                                             sea, epsilon, i + 1)
            ELSE IF v.height > sea /\ below > 0
            THEN clean_coastline_AnyNeighbor([vs EXCEPT ![i + 1].height = sea - epsilon],
                                             sea, epsilon, i + 1)
            ELSE clean_coastline_AnyNeighbor(vs, sea, epsilon, i + 1)

\* World.clean_coastline from the vertex of index i on
RECURSIVE clean_coastline(_, _, _, _)
clean_coastline(vs, sea, epsilon, i) ==
    IF i >= Len(vs) THEN vs
    ELSE LET v == At(vs, i)
             above == Cardinality({n \in v.neighbors : HeightOf(vs, n) > sea})
             below == Cardinality({n \in v.neighbors : HeightOf(vs, n) < sea})
         IN IF v.height < sea /\ above > 1
            THEN clean_coastline([vs EXCEPT ![i + 1].height = sea + epsilon],
                                 sea, epsilon, i + 1)
            ELSE IF v.height > sea /\ below > 1
            THEN clean_coastline([vs EXCEPT ![i + 1].height = sea - epsilon],
                                 sea, epsilon, i + 1)
            ELSE clean_coastline(vs, sea, epsilon, i + 1)

---------------------------------------------------------------------------
(* Sea level and land classifier *)

\* the vertex heights in ascending order
RECURSIVE SortedHeights(_)
SortedHeights(hs) ==
    IF hs = << >> THEN << >>
    ELSE LET i == CHOOSE k \in DOMAIN hs : \A j \in DOMAIN hs : hs[k] <= hs[j]
         IN <<hs[i]>> \o SortedHeights([j \in 1..(Len(hs) - 1) |->
                                           IF j < i THEN hs[j] ELSE hs[j + 1]])

\* np.percentile(heights, q) for 0 <= q <= 100, q in height units: linear
\* interpolation between the two order statistics around q/100 * (n-1)
Percentile(hs, q) ==
    LET a == SortedHeights(hs)
        whole == 100 * HeightScale
        pos == q * (Len(hs) - 1)
        i == pos \div whole
        frac == ((pos % whole) * 1000) \div whole
    IN IF i + 1 >= Len(hs) THEN a[Len(hs)]
       ELSE a[i + 1] + ((a[i + 2] - a[i + 1]) * frac) \div 1000

\* World.set_sea_level taking the boundary value 1 as a height (<= for <)
set_sea_level_BoundaryAbsolute(vs, value) ==
    IF value <= HeightScale THEN value
    ELSE Percentile([i \in DOMAIN vs |-> vs[i].height], value)

\* World.set_sea_level: the new sea level; the threshold 1 is HeightScale
set_sea_level(vs, value) ==
    IF value < HeightScale THEN value
    ELSE Percentile([i \in DOMAIN vs |-> vs[i].height], value)

\* Patch.height testing the cache for truth ("if not self._h") rather than
\* for None: a cached 0 is computed again
PatchHeightRead_Falsy(vs, patch) ==
    IF patch._h = None \/ patch._h = Some(0)
    THEN [patch EXCEPT !._h = Some(CHOOSE h \in {At(vs, v).height : v \in Range(patch.vertices)} :
                                      \A v \in Range(patch.vertices) : h <= At(vs, v).height)]
    ELSE patch

\* Patch.height: the patch after the read (the value read is its _h)
PatchHeightRead(vs, patch) ==
    IF patch._h = None
    THEN [patch EXCEPT !._h = Some(CHOOSE h \in {HeightOf(vs, v) : v \in Range(patch.vertices)} :
                                      \A v \in Range(patch.vertices) : h <= HeightOf(vs, v))]
    ELSE patch

\* max(self.vertices, key=height) and min(...): the first extremal vertex in
\* the patch's vertex order
FirstMax(vs, pvertices) ==
    pvertices[CHOOSE i \in DOMAIN pvertices :
                 /\ \A j \in DOMAIN pvertices : HeightOf(vs, pvertices[i]) >= HeightOf(vs, pvertices[j])
                 /\ \A j \in 1..(i - 1) : HeightOf(vs, pvertices[j]) < HeightOf(vs, pvertices[i])]
FirstMin(vs, pvertices) ==
    pvertices[CHOOSE i \in DOMAIN pvertices :
                 /\ \A j \in DOMAIN pvertices : HeightOf(vs, pvertices[i]) <= HeightOf(vs, pvertices[j])
                 /\ \A j \in 1..(i - 1) : HeightOf(vs, pvertices[j]) > HeightOf(vs, pvertices[i])]

\* Patch.slope: the patch after the read; a slope is [nan, v], v in
\* thousandths; 0/0 (max_v and min_v coincide) is NaN
PatchSlopeRead(vs, patch) ==
    IF patch._slope = None
    THEN LET max_v == FirstMax(vs, patch.vertices)
             min_v == FirstMin(vs, patch.vertices)
             dist == Norm(At(vs, max_v).coords, At(vs, min_v).coords)
         IN [patch EXCEPT !._slope =
               Some(IF dist = 0 THEN [nan |-> TRUE, v |-> 0]
                    ELSE [nan |-> FALSE,
                          v |-> ((((HeightOf(vs, max_v) - HeightOf(vs, min_v)) * 1000)
                                    \div dist) * CoordScale) \div HeightScale])]
    ELSE patch

\* World.land_patches computed once and for all: an explicit "computed" flag
\* in place of the emptiness test (an empty result is kept once the heights
\* have been read)
land_patches_ComputedOnce(vs, ps, lp, sea) ==
    IF Len(lp) = 0 /\ \E p \in DOMAIN ps : ps[p]._h = None
    THEN LET read == [p \in DOMAIN ps |->
                        IF ps[p]._h = None
                        THEN [ps[p] EXCEPT !._h = Some(CHOOSE h \in {At(vs, v).height : v \in Range(ps[p].vertices)} :
                                                \A v \in Range(ps[p].vertices) : h <= At(vs, v).height)]
                        ELSE ps[p]]
         IN [patches |-> read,
             _land_patches |-> SelectSeq(SortedSeq(DOMAIN ps),
                                         LAMBDA p : read[p]._h[1] > sea)]
    ELSE [patches |-> ps, _land_patches |-> lp]

\* World.land_patches: [patches, _land_patches] after the access; the scan
\* reads the height of every patch
land_patches(vs, ps, lp, sea) ==
    IF Len(lp) = 0
    THEN LET read == [p \in DOMAIN ps |-> PatchHeightRead(vs, ps[p])]
         IN [patches |-> read,
             _land_patches |-> SelectSeq(SortedSeq(DOMAIN ps),
                                         LAMBDA p : read[p]._h[1] > sea)]
    ELSE [patches |-> ps, _land_patches |-> lp]

---------------------------------------------------------------------------
(* Navigation graph: a graph is [nodes, weight], weight a dict on edges *)

EmptyGraph == [nodes |-> {}, weight |-> EmptyDict]

\* nx.DiGraph.add_edge
add_edge(G, a, b, w) ==
    [nodes |-> G.nodes \cup {a, b}, weight |-> Put(G.weight, <<a, b>>, w)]

\* the edge weight dist * np.exp(delta_h) in coordinate units
EdgeWeight(c1, c2, delta_h) ==
    (Norm(c1, c2) * Exp((delta_h * 1000) \div HeightScale)) \div 1000

\* the inner loop of World.patch_network for one land patch over the ridges
\* of its neighbour dict; nb is [G, patches], and p.height and patch.height
\* are reads that freeze
RECURSIVE NetworkEdges(_, _, _, _, _)
NetworkEdges(nb, vs, patch, todo, sea) ==
    IF todo = << >> THEN nb
    ELSE LET pname == nb.patches[patch].neighbors[Head(todo)]
             ps1 == [nb.patches EXCEPT ![pname] = PatchHeightRead(vs, @)]
         IN IF ps1[pname]._h[1] < sea
            THEN NetworkEdges([nb EXCEPT !.patches = ps1], vs, patch, Tail(todo), sea)
            ELSE LET ps2 == [ps1 EXCEPT ![patch] = PatchHeightRead(vs, @)]
                 IN NetworkEdges(
                      [G |-> add_edge(nb.G, patch, pname,
                                      EdgeWeight(ps2[patch].centroid, ps2[pname].centroid,
                                                 ps2[pname]._h[1] - ps2[patch]._h[1])),
                       patches |-> ps2],
                      vs, patch, Tail(todo), sea)

\* the outer loop of World.patch_network over the land patches
RECURSIVE NetworkBuild(_, _, _, _)
NetworkBuild(nb, vs, todo, sea) ==
    IF todo = << >> THEN nb
    ELSE NetworkBuild(
           NetworkEdges(nb, vs, Head(todo),
                        SortedSeq(DOMAIN nb.patches[Head(todo)].neighbors), sea),
           vs, Tail(todo), sea)

\* World.patch_network testing the cache for truth ("if not
\* self._patch_network") rather than for None: an empty graph is built again
patch_network_Falsy(vs, ps, lp, net, sea) ==
    IF net = None \/ net = Some(EmptyGraph)
    THEN LET land == land_patches(vs, ps, lp, sea)
             nb == NetworkBuild([G |-> EmptyGraph, patches |-> land.patches],
                                vs, land._land_patches, sea)
         IN [patches |-> nb.patches,
             _land_patches |-> land._land_patches,
             _patch_network |-> Some(nb.G)]
    ELSE [patches |-> ps, _land_patches |-> lp, _patch_network |-> net]

\* World.patch_network: [patches, _land_patches, _patch_network] after the
\* access
patch_network(vs, ps, lp, net, sea) ==
    IF net = None
    THEN LET land == land_patches(vs, ps, lp, sea)
             nb == NetworkBuild([G |-> EmptyGraph, patches |-> land.patches],
                                vs, land._land_patches, sea)
         IN [patches |-> nb.patches,
             _land_patches |-> land._land_patches,
             _patch_network |-> Some(nb.G)]
    ELSE [patches |-> ps, _land_patches |-> lp, _patch_network |-> net]

\* the simple paths of G that extend path to the node target
RECURSIVE PathsFrom(_, _, _)
PathsFrom(G, path, target) ==
    IF path[Len(path)] = target THEN {path}
    ELSE UNION {PathsFrom(G, Append(path, n), target) :
                  n \in {m \in G.nodes : /\ <<path[Len(path)], m>> \in DOMAIN G.weight
                                         /\ m \notin Range(path)}}

PathWeight(G, path) ==
    SumSeq([i \in 1..(Len(path) - 1) |-> G.weight[<<path[i], path[i + 1]>>]])

\* the paths nx.shortest_path(G, source, target, weight='weight') can return
ShortestPaths(G, source, target) ==
    LET all == PathsFrom(G, <<source>>, target)
    IN {p \in all : \A q \in all : PathWeight(G, p) <= PathWeight(G, q)}

\* the exceptions nx.shortest_path can raise: a source that is no node of G
\* raises NodeNotFound; a target that is no node of G raises NodeNotFound or
\* NetworkXNoPath, depending on the networkx release; no path raises
\* NetworkXNoPath; "none" when it returns
ShortestPathErrors(G, source, target) ==
    IF source \notin G.nodes THEN {"NodeNotFound"}
    ELSE IF target \notin G.nodes THEN {"NodeNotFound", "NetworkXNoPath"}
    ELSE IF PathsFrom(G, <<source>>, target) = {} THEN {"NetworkXNoPath"}
    ELSE {"none"}

\* road_coords of World.make_road for the patch list road_patches
road_coords(ps, road_patches) ==
    [i \in 1..(Len(road_patches) - 1) |->
        <<ps[road_patches[i]].centroid, ps[road_patches[i + 1]].centroid>>]

---------------------------------------------------------------------------
(* Inputs *)

MaxSteps == 3

\* Voronoi diagram of the 2 x 2 point grid: one vertex, every ridge unbounded
TessSingle ==
    [vertices |-> << <<500, 500>> >>,
     ridge_vertices |-> << <<-1, 0>>, <<-1, 0>>, <<-1, 0>>, <<-1, 0>> >>,
     regions |-> << <<-1, 0>>, <<-1, 0>>, << >>, <<-1, 0>>, <<-1, 0>> >>]

\* Voronoi diagram of a triangle of points around a fourth point
TessTriangle ==
    [vertices |-> << <<250, 250>>, <<750, 250>>, <<500, 750>> >>,
     ridge_vertices |-> << <<-1, 0>>, <<0, 1>>, <<-1, 1>>, <<1, 2>>, <<-1, 2>>, <<0, 2>> >>,
     regions |-> << << >>, <<-1, 0, 1>>, <<0, 1, 2>>, <<-1, 1, 2>>, <<-1, 0, 2>> >>]

\* Voronoi diagram of the 3 x 3 point grid: one bounded square cell
TessSquare ==
    [vertices |-> << <<250, 250>>, <<750, 250>>, <<750, 750>>, <<250, 750>> >>,
     ridge_vertices |-> << <<-1, 0>>, <<0, 1>>, <<-1, 1>>, <<1, 2>>, <<-1, 2>>,
                           <<2, 3>>, <<-1, 3>>, <<3, 0>>, <<-1, 0>>, <<-1, 1>>,
                           <<-1, 2>>, <<-1, 3>> >>,
     regions |-> << <<-1, 0>>, <<-1, 0, 1>>, <<-1, 1>>, <<-1, 0, 3>>, <<0, 1, 2, 3>>,
                    <<-1, 1, 2>>, << >>, <<-1, 3>>, <<-1, 2, 3>>, <<-1, 2>> >>]

\* Voronoi diagram of the 4 x 4 point grid: 3 x 3 vertices (vertex 3*row+col),
\* four bounded square cells around the centre vertex 4
TessGrid ==
    [vertices |-> << <<250, 250>>, <<500, 250>>, <<750, 250>>,
                     <<250, 500>>, <<500, 500>>, <<750, 500>>,
                     <<250, 750>>, <<500, 750>>, <<750, 750>> >>,
     ridge_vertices |-> << <<-1, 0>>, <<0, 1>>, <<1, 2>>, <<-1, 2>>,
                           <<0, 3>>, <<1, 4>>, <<2, 5>>, <<-1, 1>>,
                           <<3, 4>>, <<4, 5>>, <<-1, 3>>, <<-1, 5>>,
                           <<3, 6>>, <<4, 7>>, <<5, 8>>, <<-1, 6>>,
                           <<6, 7>>, <<7, 8>>, <<-1, 8>>, <<-1, 7>> >>,
     regions |-> << <<-1, 0>>, <<-1, 0, 1>>, <<0, 1, 4, 3>>, <<1, 2, 5, 4>>,
                    << >>, <<-1, 1, 2>>, <<3, 4, 7, 6>>, <<-1, 3, 6>>,
                    <<4, 5, 8, 7>>, <<-1, 5, 8>>, <<-1, 7, 8>>, <<-1, 2>> >>]

\* the default limits x_lim = y_lim = (0, 1), and a box that leaves the
\* vertices of the right-hand column out of bounds
Limits == { <<0, 1000>>, <<0, 750>> }

---------------------------------------------------------------------------
(* State after construction *)

\* World.__init__ on the diagram vor with the given limits
WorldInit(vor, xl, yl) ==
    LET w == Construct(vor)
    IN /\ pc = "new"
       /\ voronoi' = vor
       /\ x_lim' = xl
       /\ y_lim' = yl
       /\ vertices' = w.vertices
       /\ ridges' = w.ridges
       /\ patches' = w.patches
       /\ sea_level' = 0
       /\ _land_patches' = << >>
       /\ _patch_network' = None
       /\ pc' = IF w.err = "none" THEN "built" ELSE "failed"
       /\ err' = w.err
       /\ last' = [op |-> "__init__", a |-> 0, b |-> 0, rep |-> 1]
       /\ ret' = None
       /\ steps' = 0

\* no World yet
Unbuilt ==
    /\ voronoi = None
    /\ x_lim = <<0, 1000>>
    /\ y_lim = <<0, 1000>>
    /\ vertices = << >>
    /\ ridges = EmptyDict
    /\ patches = EmptyDict
    /\ sea_level = 0
    /\ _land_patches = << >>
    /\ _patch_network = None
    /\ pc = "new"
    /\ err = "none"
    /\ last = [op |-> "none", a |-> 0, b |-> 0, rep |-> 0]
    /\ ret = None
    /\ steps = 0

\* the state World.__init__ leaves on the diagram vor, vertex heights then
\* edited to hs (a list of heights, one per vertex)
Built(vor, xl, yl, hs) ==
    LET w == Construct(vor)
    IN /\ voronoi = vor
       /\ x_lim = xl
       /\ y_lim = yl
       /\ vertices = [i \in DOMAIN w.vertices |-> [w.vertices[i] EXCEPT !.height = hs[i]]]
       /\ ridges = w.ridges
       /\ patches = w.patches
       /\ sea_level = 0
       /\ _land_patches = << >>
       /\ _patch_network = None
       /\ pc = "built"
       /\ err = "none"
       /\ last = [op |-> "__init__", a |-> 0, b |-> 0, rep |-> 1]
       /\ ret = None
       /\ steps = 0

---------------------------------------------------------------------------
(* Operations of a constructed World *)

\* a call of op with arguments a, b on a constructed world; last.rep counts
\* how many times in a row this call has been made with these arguments
Call(op, a, b) ==
    /\ pc = "built"
    /\ steps < MaxSteps
    /\ steps' = steps + 1
    /\ last' = [op |-> op, a |-> a, b |-> b,
                rep |-> IF last.op = op /\ last.a = a /\ last.b = b
                        THEN last.rep + 1 ELSE 1]

\* the effect of World.normalize_heights on the vertex list vs: with all
\* heights equal the division is 0/0, which raises ZeroDivisionError at the
\* first vertex when the heights are Python numbers and yields NaN for every
\* vertex when they are numpy numbers (the model does not track which)
NormalizeInto(vs) ==
    IF MaxHeight(vs) # MinHeight(vs)
    THEN vertices' = normalize_heights(vs) /\ pc' = pc /\ err' = "none"
    ELSE \/ vertices' = vs /\ pc' = pc /\ err' = "ZeroDivisionError"
         \/ vertices' = vs /\ pc' = "nan" /\ err' = "none"

SetHeights(h) ==
    /\ Call("set_heights", h, 0)
    /\ vertices' = set_heights(vertices, h)
    /\ err' = "none"
    /\ UNCHANGED <<voronoi, x_lim, y_lim, ridges, patches, sea_level,
                   _land_patches, _patch_network, pc, ret>>

NormalizeHeights ==
    /\ Call("normalize_heights", 0, 0)
    /\ NormalizeInto(vertices)
    /\ UNCHANGED <<voronoi, x_lim, y_lim, ridges, patches, sea_level,
                   _land_patches, _patch_network, ret>>

AddSlope(magnitude, slope, normalize) ==
    /\ Call("add_slope", <<magnitude, slope>>, normalize)
    /\ IF normalize
       THEN NormalizeInto(add_slope(vertices, x_lim, y_lim, magnitude, slope))
       ELSE /\ vertices' = add_slope(vertices, x_lim, y_lim, magnitude, slope)
            /\ pc' = pc /\ err' = "none"
    /\ UNCHANGED <<voronoi, x_lim, y_lim, ridges, patches, sea_level,
                   _land_patches, _patch_network, ret>>

AddHill(hill, r, normalize) ==
    /\ Call("add_hill", <<hill, r>>, normalize)
    /\ IF normalize
       THEN NormalizeInto(add_hill(vertices, x_lim, y_lim, hill, r))
       ELSE /\ vertices' = add_hill(vertices, x_lim, y_lim, hill, r)
            /\ pc' = pc /\ err' = "none"
    /\ UNCHANGED <<voronoi, x_lim, y_lim, ridges, patches, sea_level,
                   _land_patches, _patch_network, ret>>

\* World.make_rivers; last.a records what min returned for each source
MakeRivers ==
    /\ pc = "built" /\ steps < MaxSteps
    /\ \E lowest \in LowestChoices(vertices, Sources(vertices, x_lim, y_lim)) :
         LET w == make_rivers(vertices, ridges, x_lim, y_lim, lowest)
         IN /\ Call("make_rivers", lowest, 0)
            /\ vertices' = w.vertices
            /\ ridges' = w.ridges
            /\ err' = w.err
    /\ UNCHANGED <<voronoi, x_lim, y_lim, patches, sea_level,
                   _land_patches, _patch_network, pc, ret>>

ErodeHeights(max_total) ==
    /\ Call("erode_heights", max_total, 0)
    /\ vertices' = erode_heights(vertices, ridges, SortedSeq(DOMAIN ridges), max_total)
    /\ err' = "none"
    /\ UNCHANGED <<voronoi, x_lim, y_lim, ridges, patches, sea_level,
                   _land_patches, _patch_network, pc, ret>>

\* World.set_sea_level; np.percentile raises ValueError above 100
SetSeaLevel(value) ==
    /\ Call("set_sea_level", value, 0)
    /\ IF value > 100 * HeightScale
       THEN sea_level' = sea_level /\ err' = "ValueError"
       ELSE sea_level' = set_sea_level(vertices, value) /\ err' = "none"
    /\ UNCHANGED <<voronoi, x_lim, y_lim, vertices, ridges, patches,
                   _land_patches, _patch_network, pc, ret>>

CleanCoastline(epsilon) ==
    /\ Call("clean_coastline", epsilon, 0)
    /\ vertices' = clean_coastline(vertices, sea_level, epsilon, 0)
    /\ err' = "none"
    /\ UNCHANGED <<voronoi, x_lim, y_lim, ridges, patches, sea_level,
                   _land_patches, _patch_network, pc, ret>>

\* a read of Patch.height of the patch p
ReadHeight(p) ==
    /\ Call("height", p, 0)
    /\ patches' = [patches EXCEPT ![p] = PatchHeightRead(vertices, @)]
    /\ ret' = patches'[p]._h[1]
    /\ err' = "none"
    /\ UNCHANGED <<voronoi, x_lim, y_lim, vertices, ridges, sea_level,
                   _land_patches, _patch_network, pc>>

\* a read of Patch.slope of the patch p
ReadSlope(p) ==
    /\ Call("slope", p, 0)
    /\ patches' = [patches EXCEPT ![p] = PatchSlopeRead(vertices, @)]
    /\ ret' = patches'[p]._slope[1]
    /\ err' = "none"
    /\ UNCHANGED <<voronoi, x_lim, y_lim, vertices, ridges, sea_level,
                   _land_patches, _patch_network, pc>>

\* an access of World.land_patches
LandPatches ==
    LET w == land_patches(vertices, patches, _land_patches, sea_level)
    IN /\ Call("land_patches", 0, 0)
       /\ patches' = w.patches
       /\ _land_patches' = w._land_patches
       /\ ret' = w._land_patches
       /\ err' = "none"
       /\ UNCHANGED <<voronoi, x_lim, y_lim, vertices, ridges, sea_level,
                      _patch_network, pc>>

\* an access of World.patch_network
PatchNetwork ==
    LET w == patch_network(vertices, patches, _land_patches, _patch_network, sea_level)
    IN /\ Call("patch_network", 0, 0)
       /\ patches' = w.patches
       /\ _land_patches' = w._land_patches
       /\ _patch_network' = w._patch_network
       /\ ret' = w._patch_network[1]
       /\ err' = "none"
       /\ UNCHANGED <<voronoi, x_lim, y_lim, vertices, ridges, sea_level, pc>>

\* World.make_road; last.b records road_patches
MakeRoad(start_patch, end_patch) ==
    LET w == patch_network(vertices, patches, _land_patches, _patch_network, sea_level)
        G == w._patch_network[1]
    IN /\ pc = "built" /\ steps < MaxSteps
       /\ patches' = w.patches
       /\ _land_patches' = w._land_patches
       /\ _patch_network' = w._patch_network
       /\ \E e \in ShortestPathErrors(G, start_patch, end_patch) :
            /\ err' = e
            /\ IF e = "none"
               THEN \E road_patches \in ShortestPaths(G, start_patch, end_patch) :
                      /\ Call("make_road", <<start_patch, end_patch>>, road_patches)
                      /\ ret' = road_coords(w.patches, road_patches)
               ELSE /\ Call("make_road", <<start_patch, end_patch>>, << >>)
                    /\ ret' = None
       /\ UNCHANGED <<voronoi, x_lim, y_lim, vertices, ridges, sea_level, pc>>

---------------------------------------------------------------------------
(* Construction from any tessellation over four vertices *)

\* the subsequence of pool at the positions in S, from position i on
RECURSIVE Pick(_, _, _)
Pick(pool, S, i) ==
    IF i > Len(pool) THEN << >>
    ELSE (IF i \in S THEN <<pool[i]>> ELSE << >>) \o Pick(pool, S, i + 1)
SubSeqs(pool) == {Pick(pool, S, 1) : S \in SUBSET (DOMAIN pool)}

\* ridges a tessellation over four vertices can list: bounded and unbounded
\* ones, no two joining the same pair of vertices
RidgePool == << <<0, 1>>, <<-1, 0>>, <<1, 2>>, <<2, 3>>, <<3, 0>>, <<0, 2>>, <<2, -1>> >>

\* regions it can list: empty, bounded, unbounded, and the malformed ones
\* (one or two vertices without the sentinel, overlapping cells)
RegionPool == << << >>, <<0, 1, 2>>, <<-1, 0, 1>>, <<0, 2, 3>>, <<1, 2>>, <<3>>,
                 <<0, 1, 2, 3>> >>

BuildTessellations ==
    {[vertices |-> TessSquare.vertices, ridge_vertices |-> rv, regions |-> rg] :
        rv \in SubSeqs(RidgePool), rg \in SubSeqs(RegionPool)}

InitBuild == Unbuilt
NextBuild ==
    /\ pc = "new"
    /\ \E vor \in BuildTessellations : WorldInit(vor, <<0, 1000>>, <<0, 1000>>)
SpecBuild == InitBuild /\ [][NextBuild]_vars

---------------------------------------------------------------------------
(* Flow accumulation and erosion from any vertex heights *)

HeightValues == {0, 2500, 5000}
MaxTotals == {500, 100}

InitRivers ==
    \E vor \in {TessSingle, TessTriangle, TessSquare}, xl \in Limits, yl \in Limits :
        \E hs \in [DOMAIN vor.vertices -> HeightValues] : Built(vor, xl, yl, hs)
NextRivers ==
    \/ MakeRivers
    \/ \E max_total \in MaxTotals : ErodeHeights(max_total)
SpecRivers == InitRivers /\ [][NextRivers]_vars

---------------------------------------------------------------------------
(* Navigation graph and roads on the 3 x 3 vertex grid *)

\* height lists of the grid: every vertex at 1.0, the four corner vertices
\* (each on exactly one patch) at any of the height values
GridHeights ==
    {[i \in DOMAIN TessGrid.vertices |-> IF (i - 1) \in DOMAIN c THEN c[i - 1] ELSE HeightScale] :
        c \in [{0, 2, 6, 8} -> HeightValues]}

\* sea levels -0.1, 0.3 and 0.9, and the percentiles 1, 50 and 101
SeaLevelArgs == {-500, 1500, 4500, HeightScale, 50 * HeightScale, 101 * HeightScale}

InitRoad == \E hs \in GridHeights : Built(TessGrid, <<0, 1000>>, <<0, 1000>>, hs)
NextRoad ==
    \/ \E value \in SeaLevelArgs : SetSeaLevel(value)
    \/ LandPatches
    \/ PatchNetwork
    \/ \E start_patch \in DOMAIN patches, end_patch \in DOMAIN patches :
          MakeRoad(start_patch, end_patch)
SpecRoad == InitRoad /\ [][NextRoad]_vars

---------------------------------------------------------------------------
(* Caches under height and sea-level edits on the 2 x 3 vertex strip *)

\* Voronoi diagram of the 3 x 4 point grid: 2 x 3 vertices (vertex 3*row+col),
\* two bounded square cells side by side
TessStrip ==
    [vertices |-> << <<250, 375>>, <<500, 375>>, <<750, 375>>,
                     <<250, 625>>, <<500, 625>>, <<750, 625>> >>,
     ridge_vertices |-> << <<-1, 0>>, <<0, 1>>, <<1, 2>>, <<-1, 2>>, <<0, 3>>,
                           <<1, 4>>, <<2, 5>>, <<-1, 1>>, <<3, 4>>, <<4, 5>>,
                           <<-1, 3>>, <<-1, 4>>, <<-1, 5>> >>,
     regions |-> << <<-1, 0>>, <<-1, 0, 1>>, << >>, <<0, 1, 4, 3>>, <<-1, 1, 2>>,
                    <<1, 2, 5, 4>>, <<-1, 0, 3>>, <<-1, 2, 5>>, <<-1, 3, 4>>,
                    <<-1, 4, 5>> >>]

\* height lists of the strip: all 0 as World.__init__ leaves them, or every
\* vertex at 1.0 but the corners 0 and 2 (each on one patch) at 0 or at 1.0
StripHeights ==
    {[i \in DOMAIN TessStrip.vertices |-> 0]} \cup
    {[i \in DOMAIN TessStrip.vertices |-> IF (i - 1) \in DOMAIN c THEN c[i - 1] ELSE HeightScale] :
        c \in [{0, 2} -> {0, HeightScale}]}

SetHeightArgs == {0, 2500}
Magnitudes == {0, 2}
Slopes == { <<1, 0>> }
Hills == { <<250, 375>> }
Radii == {500}
Epsilons == {50}

InitCache == \E hs \in StripHeights : Built(TessStrip, <<0, 1000>>, <<0, 1000>>, hs)
NextCache ==
    \/ \E h \in SetHeightArgs : SetHeights(h)
    \/ NormalizeHeights
    \/ \E m \in Magnitudes, sl \in Slopes, n \in BOOLEAN : AddSlope(m, sl, n)
    \/ \E hill \in Hills, r \in Radii, n \in BOOLEAN : AddHill(hill, r, n)
    \/ MakeRivers
    \/ \E max_total \in MaxTotals : ErodeHeights(max_total)
    \/ \E value \in SeaLevelArgs : SetSeaLevel(value)
    \/ \E epsilon \in Epsilons : CleanCoastline(epsilon)
    \/ \E p \in DOMAIN patches : ReadHeight(p)
    \/ \E p \in DOMAIN patches : ReadSlope(p)
    \/ LandPatches
    \/ PatchNetwork
SpecCache == InitCache /\ [][NextCache]_vars

---------------------------------------------------------------------------
(* Claims *)

InBounds(v) == _check_coord(x_lim, y_lim, At(vertices, v).coords)
FluxOf(v) == At(vertices, v).flux

\* the neighbours of v that send it their flux in the make_rivers pass just
\* made: in bounds, strictly higher, and v is what min returned for them
Senders(v) ==
    {u \in At(vertices, v).neighbors :
        /\ InBounds(u)
        /\ HeightOf(vertices, u) > HeightOf(vertices, v)
        /\ last.a[u] = v}

RECURSIVE SumFlux(_)
SumFlux(S) ==
    IF S = {} THEN 0
    ELSE LET u == CHOOSE x \in S : TRUE IN FluxOf(u) + SumFlux(S \ {u})

\* C1: after make_rivers the flux of every vertex is its own rainfall share
\* (one flux unit, 1/|V|) plus the final fluxes of exactly its senders, and
\* the ridge from each sender carries that sender's flux.
C1_FluxBalance ==
    (pc = "built" /\ last.op = "make_rivers" /\ err = "none") =>
        \A v \in Names(vertices) :
            /\ FluxOf(v) = 1 + SumFlux(Senders(v))
            /\ \A u \in Senders(v) :
                 ridges[At(vertices, u).ridges[v]].flux = FluxOf(u)

\* a pass in which some vertex receives from two senders, one of which
\* forwards flux it received itself
C1_Witness ==
    /\ pc = "built" /\ last.op = "make_rivers" /\ err = "none"
    /\ \E v \in Names(vertices) :
         /\ Cardinality(Senders(v)) >= 2
         /\ \E u \in Senders(v) : FluxOf(u) >= 2

\* the height 0.1 * max_total / 500 in height units
ErosionCap(max_total) == Drop(max_total)

\* the ridges that carry flux and meet at the vertex v
FluxRidgesAt(v) ==
    {r \in DOMAIN ridges : ridges[r].flux # 0 /\ v \in {ridges[r].end_1, ridges[r].end_2}}

ErodePass == last'.op = "erode_heights" /\ steps' = steps + 1

HeightLoss(v) == HeightOf(vertices, v) - HeightOf(vertices', v)

\* C2 as stated: in one erode_heights(max_total) pass the lower endpoint of a
\* ridge with flux > 0 and slope > 0 is not raised and loses at most
\* 0.1 * max_total / 500.
C2_Original ==
    [][ErodePass =>
         \A r \in DOMAIN ridges :
            (ridges[r].flux > 0 /\ RidgeSlope(vertices, ridges[r]) > 0) =>
                /\ HeightLoss(LowEnd(vertices, ridges[r])) >= 0
                /\ HeightLoss(LowEnd(vertices, ridges[r])) <= ErosionCap(last'.a)]_vars

\* C2 amended: in one pass the lower endpoint of such a ridge is not raised
\* and loses at most 0.1 * max_total / 500 for each flux-carrying ridge that
\* meets at it.
C2_ErosionBound ==
    [][ErodePass =>
         \A r \in DOMAIN ridges :
            (ridges[r].flux > 0 /\ RidgeSlope(vertices, ridges[r]) > 0) =>
                LET low == LowEnd(vertices, ridges[r])
                IN /\ HeightLoss(low) >= 0
                   /\ HeightLoss(low) <= ErosionCap(last'.a) * Cardinality(FluxRidgesAt(low))]_vars

\* a pass has just eroded a vertex at which two flux-carrying ridges meet,
\* the lower endpoint of a ridge that still has a positive slope
C2_Witness ==
    /\ last.op = "erode_heights"
    /\ \E r \in DOMAIN ridges :
         /\ ridges[r].flux > 0 /\ RidgeSlope(vertices, ridges[r]) > 0
         /\ Cardinality(FluxRidgesAt(LowEnd(vertices, ridges[r]))) >= 2
         /\ HeightOf(vertices, LowEnd(vertices, ridges[r])) \notin HeightValues

\* C9: after construction every ridge is registered symmetrically: each
\* endpoint is a neighbour of the other and holds the ridge under the
\* other's name.
C9_MeshSymmetry ==
    pc = "built" =>
        \A r \in DOMAIN ridges :
            LET A == ridges[r].end_1
                B == ridges[r].end_2
            IN /\ A \in At(vertices, B).neighbors
               /\ B \in At(vertices, A).neighbors
               /\ B \in DOMAIN At(vertices, A).ridges /\ At(vertices, A).ridges[B] = r
               /\ A \in DOMAIN At(vertices, B).ridges /\ At(vertices, B).ridges[A] = r

\* a world built with at least three ridges, some vertex on two of them
C9_Witness ==
    /\ pc = "built"
    /\ Cardinality(DOMAIN ridges) >= 3
    /\ \E i \in DOMAIN vertices : Cardinality(vertices[i].neighbors) >= 2

\* C10 as stated: every patch of a constructed world has at least three
\* bounding vertices, and a region of one or two vertex indices without the
\* sentinel makes construction fail.
C10_PatchClosure ==
    /\ pc = "built" => \A p \in DOMAIN patches : Len(patches[p].vertices) >= 3
    /\ (pc # "new" /\ \E i \in DOMAIN voronoi.regions :
                        /\ Len(voronoi.regions[i]) \in {1, 2}
                        /\ -1 \notin Range(voronoi.regions[i]))
          => pc = "failed"

---------------------------------------------------------------------------
(* Claims on sea level, land, the navigation graph and roads *)

VertexHeights == [i \in DOMAIN vertices |-> vertices[i].height]

\* the k-th smallest vertex height (k from 1), by rank
KthSmallest(k) ==
    CHOOSE h \in Range(VertexHeights) :
        /\ Cardinality({i \in DOMAIN vertices : vertices[i].height < h}) < k
        /\ Cardinality({i \in DOMAIN vertices : vertices[i].height <= h}) >= k

\* the q-th percentile of the vertex heights, q in height units, 0 <= q/HeightScale
\* <= 100: the order statistics around rank q/100 * (n-1), interpolated
RankPercentile(q) ==
    LET n == Len(vertices)
        below == (q * (n - 1)) \div (100 * HeightScale)
        part == (((q * (n - 1)) % (100 * HeightScale)) * 1000) \div (100 * HeightScale)
    IN IF below + 1 >= n THEN KthSmallest(n)
       ELSE KthSmallest(below + 1)
              + ((KthSmallest(below + 2) - KthSmallest(below + 1)) * part) \div 1000

\* C3: a set_sea_level(value) that returns leaves sea_level = value when
\* value < 1 and the value-th percentile of the current vertex heights when
\* value >= 1, the value 1 included.
C3_SeaLevelDualMode ==
    (pc = "built" /\ last.op = "set_sea_level" /\ err = "none") =>
        IF last.a < HeightScale THEN sea_level = last.a
        ELSE sea_level = RankPercentile(last.a)

\* set_sea_level(1.0) has set a first percentile that is not 1.0
C3_Witness ==
    /\ pc = "built" /\ last.op = "set_sea_level" /\ err = "none"
    /\ last.a = HeightScale
    /\ sea_level # HeightScale
    /\ sea_level = RankPercentile(HeightScale)

\* what a read of Patch.height of p returns now
HeightNow(p) == PatchHeightRead(vertices, patches[p])._h[1]

\* the patches across a ridge of p
PatchNeighbors(p) == {patches[p].neighbors[r] : r \in DOMAIN patches[p].neighbors}

\* the land patches now, and the land subgraph: an edge for each land patch
\* and each land patch across one of its ridges
Land == {p \in DOMAIN patches : HeightNow(p) > sea_level}
LandEdges == {e \in Land \X Land : e[2] \in PatchNeighbors(e[1])}
LandGraph ==
    [nodes |-> Land,
     weight |-> [e \in LandEdges |->
                   EdgeWeight(patches[e[1]].centroid, patches[e[2]].centroid,
                              HeightNow(e[2]) - HeightNow(e[1]))]]

\* C4 as stated: make_road between two land patches returns a minimum-weight
\* chain of centroid segments along edges of the land subgraph when the end
\* is reachable from the start, and fails with the no-path error when not.
C4_RoadOrNoPath ==
    (pc = "built" /\ last.op = "make_road" /\ last.a[1] \in Land /\ last.a[2] \in Land) =>
        IF PathsFrom(LandGraph, <<last.a[1]>>, last.a[2]) # {}
        THEN /\ err = "none"
             /\ last.b \in ShortestPaths(LandGraph, last.a[1], last.a[2])
             /\ ret = road_coords(patches, last.b)
        ELSE err = "NetworkXNoPath"

\* C5 as stated: when the navigation graph is built, its nodes are land
\* patches and its edges are exactly the pairs of land patches adjacent
\* across a ridge.
C5_GraphIsLandAdjacency ==
    [][(_patch_network = None /\ _patch_network' # None) =>
          /\ _patch_network'[1].nodes \subseteq Land'
          /\ DOMAIN _patch_network'[1].weight = LandEdges']_vars

LandAccess == last'.op = "land_patches" /\ steps' = steps + 1

\* C6: an access of land_patches with an empty cache returns the patches
\* whose height exceeds the current sea level; once the cache is non-empty
\* no call changes it and every access returns it.
C6_LandCache ==
    [][/\ Len(_land_patches) > 0 => _land_patches' = _land_patches
       /\ LandAccess =>
            /\ ret' = _land_patches'
            /\ Len(_land_patches) = 0 =>
                 /\ Range(ret') = {p \in DOMAIN patches : HeightNow(p) > sea_level}
                 /\ Len(ret') = Cardinality(Range(ret'))]_vars

\* an access has returned a non-empty cached list holding a patch that is
\* not above the sea level of the moment
C6_Witness ==
    /\ last.op = "land_patches"
    /\ Len(ret) > 0
    /\ \E p \in Range(ret) : patches[p]._h[1] <= sea_level

\* the minimum height of the vertices of p now
MinVertexHeight(p) ==
    CHOOSE h \in {HeightOf(vertices, v) : v \in Range(patches[p].vertices)} :
        \A v \in Range(patches[p].vertices) : h <= HeightOf(vertices, v)

\* C7: the first read of Patch.height returns the minimum height of the
\* patch's vertices; once read, Patch.height and Patch.slope keep their
\* value: no call changes the cached value and every later read returns it.
C7_PatchFrozen ==
    [][\A p \in DOMAIN patches :
          /\ (patches[p]._h = None /\ last'.op = "height" /\ last'.a = p /\ steps' = steps + 1)
                => (ret' = MinVertexHeight(p) /\ patches'[p]._h = Some(ret'))
          /\ patches[p]._h # None =>
               /\ patches'[p]._h = patches[p]._h
               /\ (last'.op = "height" /\ last'.a = p /\ steps' = steps + 1)
                     => ret' = patches[p]._h[1]
          /\ patches[p]._slope # None =>
               /\ patches'[p]._slope = patches[p]._slope
               /\ (last'.op = "slope" /\ last'.a = p /\ steps' = steps + 1)
                     => ret' = patches[p]._slope[1]]_vars

\* a read has returned a frozen height 0 of a patch whose vertices are all
\* above 0 by now
C7_Witness ==
    /\ last.op = "height"
    /\ ret = 0
    /\ MinVertexHeight(last.a) > 0

\* C8: the first access of patch_network builds the navigation graph; once
\* built it is never changed by any call, and every access returns it.
C8_NetworkFrozen ==
    [][/\ (last'.op = "patch_network" /\ steps' = steps + 1)
            => (_patch_network' # None /\ ret' = _patch_network'[1])
       /\ _patch_network # None => _patch_network' = _patch_network]_vars

\* an access has returned the cached empty graph while there are land
\* patches adjacent across a ridge
C8_Witness ==
    /\ last.op = "patch_network"
    /\ ret = EmptyGraph
    /\ LandEdges # {}

---------------------------------------------------------------------------
(* Claims on construction: sentinel indices and patch adjacency *)

\* the indices of the tessellation ridges without the sentinel, and of the
\* non-empty regions without the sentinel
BoundedRidges ==
    {i - 1 : i \in {n \in DOMAIN voronoi.ridge_vertices :
                        -1 \notin Range(voronoi.ridge_vertices[n])}}
BoundedRegions ==
    {i - 1 : i \in {n \in DOMAIN voronoi.regions :
                        /\ voronoi.regions[n] # << >>
                        /\ -1 \notin Range(voronoi.regions[n])}}

\* C11: a constructed world has a Ridge for exactly the sentinel-free
\* tessellation ridges and a Patch for exactly the non-empty sentinel-free
\* regions; every ridge endpoint and patch vertex is the vertex of the index
\* the tessellation lists, never one resolved from -1.
C11_NoSentinel ==
    pc = "built" =>
        /\ DOMAIN ridges = BoundedRidges
        /\ DOMAIN patches = BoundedRegions
        /\ \A r \in DOMAIN ridges :
              /\ <<ridges[r].end_1, ridges[r].end_2>> = At(voronoi.ridge_vertices, r)
              /\ {ridges[r].end_1, ridges[r].end_2} \subseteq 0..(Len(vertices) - 1)
        /\ \A p \in DOMAIN patches :
              /\ patches[p].vertices = At(voronoi.regions, p)
              /\ Range(patches[p].vertices) \subseteq 0..(Len(vertices) - 1)

\* a world built from a tessellation listing sentinel and sentinel-free
\* ridges and regions, and an empty region
C11_Witness ==
    /\ pc = "built"
    /\ ridges # EmptyDict /\ patches # EmptyDict
    /\ \E n \in DOMAIN voronoi.ridge_vertices : -1 \in Range(voronoi.ridge_vertices[n])
    /\ \E n \in DOMAIN voronoi.regions : -1 \in Range(voronoi.regions[n])
    /\ \E n \in DOMAIN voronoi.regions : voronoi.regions[n] = << >>

\* the patches that have the vertex v among their vertices
PatchesAt(v) == {p \in DOMAIN patches : v \in Range(patches[p].vertices)}

\* the patches incident to both endpoints of the ridge r
Shared(r) == PatchesAt(ridges[r].end_1) \cap PatchesAt(ridges[r].end_2)

\* C14: in a constructed world every ridge records no patch or exactly two;
\* it records two exactly when its endpoints share exactly two patches, and
\* these are then each other's neighbour through the ridge, both ways; a
\* ridge whose endpoints share fewer than two is skipped, and construction
\* does not fail while no ridge's endpoints share more than two.
C14_RidgePatches ==
    /\ pc = "built" =>
          \A r \in DOMAIN ridges :
              /\ Cardinality(ridges[r].patches) \in {0, 2}
              /\ ridges[r].patches = (IF Cardinality(Shared(r)) = 2 THEN Shared(r) ELSE {})
              /\ \A p \in DOMAIN patches :
                    /\ r \in DOMAIN patches[p].neighbors <=> p \in ridges[r].patches
                    /\ r \in DOMAIN patches[p].neighbors =>
                          LET q == patches[p].neighbors[r]
                          IN /\ q # p
                             /\ q \in ridges[r].patches
                             /\ r \in DOMAIN patches[q].neighbors
                             /\ patches[q].neighbors[r] = p
    /\ (pc = "failed") => \E r \in DOMAIN ridges : Cardinality(Shared(r)) > 2

\* a constructed world with a ridge between two patches, a ridge on one
\* patch only and a ridge on none
C14_Witness ==
    /\ pc = "built"
    /\ \E r \in DOMAIN ridges : Cardinality(ridges[r].patches) = 2
    /\ \E r \in DOMAIN ridges : Cardinality(Shared(r)) = 1 /\ ridges[r].patches = {}
    /\ \E r \in DOMAIN ridges : Cardinality(Shared(r)) = 0

---------------------------------------------------------------------------
(* Claims on the heightfield editor *)

\* C12 as stated: normalize_heights on heights that are all equal returns
\* without error and leaves every height 0; on other heights it returns
\* with the minimum at 0 and the maximum at 1.
C12_NormalizeUniform ==
    [][(last'.op = "normalize_heights" /\ steps' = steps + 1) =>
          /\ err' = "none" /\ pc' = "built"
          /\ IF MaxHeight(vertices) = MinHeight(vertices)
             THEN \A i \in DOMAIN vertices : vertices'[i].height = 0
             ELSE /\ MinHeight(vertices') = 0
                  /\ MaxHeight(vertices') = HeightScale]_vars

\* the call made in this step repeats the previous call, arguments included
Repeated(op) == last'.op = op /\ last'.rep >= 2 /\ steps' = steps + 1

---------------------------------------------------------------------------
(* Coastline cleanup from any heights of the strip *)

CoastHeights == [DOMAIN TessStrip.vertices -> {0, HeightScale}]

InitCoast == \E hs \in CoastHeights : Built(TessStrip, <<0, 1000>>, <<0, 1000>>, hs)
NextCoast ==
    \/ \E value \in SeaLevelArgs : SetSeaLevel(value)
    \/ \E epsilon \in Epsilons : CleanCoastline(epsilon)
SpecCoast == InitCoast /\ [][NextCoast]_vars

\* the neighbours of v above and below the sea level in the heightfield hs
Above(hs, v) == {n \in At(vertices, v).neighbors : hs[n + 1] > sea_level}
Below(hs, v) == {n \in At(vertices, v).neighbors : hs[n + 1] < sea_level}

\* v is a single-vertex inlet or island of the heightfield hs
Sliver(hs, v) ==
    \/ hs[v + 1] < sea_level /\ Cardinality(Above(hs, v)) >= 2
    \/ hs[v + 1] > sea_level /\ Cardinality(Below(hs, v)) >= 2

CoastPass == last'.op = "clean_coastline" /\ steps' = steps + 1

\* C15 as stated: when a clean_coastline(epsilon) pass returns, no vertex is
\* below sea_level with two or more neighbours above it or above sea_level
\* with two or more below it, and every vertex the pass changed sits at
\* sea_level + epsilon or sea_level - epsilon.
C15_Original ==
    [][CoastPass =>
          /\ \A v \in Names(vertices) : ~Sliver(VertexHeights', v)
          /\ \A i \in DOMAIN vertices :
                vertices'[i].height # vertices[i].height =>
                   vertices'[i].height \in {sea_level + last'.a, sea_level - last'.a}]_vars

\* what the pass sees at the vertex of index v: the heights it has given to
\* the vertices before v, and the heights before the pass of v and after
Seen(v) ==
    [i \in DOMAIN vertices |->
        IF i - 1 < v THEN vertices'[i].height ELSE vertices[i].height]

\* C15 amended: a clean_coastline(epsilon) pass visits the vertices in index
\* order; a vertex that is a single-vertex inlet among the heights as the
\* pass has left them so far is set to sea_level + epsilon, a single-vertex
\* island to sea_level - epsilon, and every other vertex keeps its height.
C15_CoastPass ==
    [][CoastPass =>
          \A v \in Names(vertices) :
             vertices'[v + 1].height =
                IF Seen(v)[v + 1] < sea_level /\ Cardinality(Above(Seen(v), v)) >= 2
                THEN sea_level + last'.a
                ELSE IF Seen(v)[v + 1] > sea_level /\ Cardinality(Below(Seen(v), v)) >= 2
                THEN sea_level - last'.a
                ELSE vertices[v + 1].height]_vars

\* a pass has moved a vertex and has left a single-vertex inlet or island
C15_Witness ==
    /\ last.op = "clean_coastline"
    /\ \E i \in DOMAIN vertices :
          vertices[i].height \in {sea_level + last.a, sea_level - last.a}
    /\ \E v \in Names(vertices) : Sliver(VertexHeights, v)

---------------------------------------------------------------------------
(* Conservation of rainfall *)

\* the vertices that forward nothing: out of bounds, or with no strictly
\* lower neighbour
Terminals ==
    {v \in Names(vertices) :
        \/ ~InBounds(v)
        \/ \A n \in At(vertices, v).neighbors :
              HeightOf(vertices, n) >= HeightOf(vertices, v)}

\* C16: after a make_rivers that returns, every forwarding vertex has put
\* its final flux on the ridge to the neighbour it chose, and the final
\* fluxes of the terminal vertices add up to the whole rainfall, |V| shares
\* of 1/|V|.
C16_RainConserved ==
    (pc = "built" /\ last.op = "make_rivers" /\ err = "none") =>
        /\ SumFlux(Terminals) = Len(vertices)
        /\ \A u \in Names(vertices) \ Terminals :
              /\ last.a[u] \in Terminals \/ FluxOf(last.a[u]) > FluxOf(u)
              /\ ridges[At(vertices, u).ridges[last.a[u]]].flux = FluxOf(u)

\* a pass in which an out-of-bounds terminal has received the flux of a
\* vertex that forwarded flux it had itself received
C16_Witness ==
    /\ pc = "built" /\ last.op = "make_rivers" /\ err = "none"
    /\ \E t \in Terminals, u \in Names(vertices) \ Terminals :
          /\ ~InBounds(t)
          /\ last.a[u] = t
          /\ FluxOf(u) > 1
          /\ FluxOf(t) > FluxOf(u)

=============================================================================
